---- MODULE Spec2Model ----
(***************************************************************************)
(* BitFrost Revenue Engine (src/app/page.tsx): the revenue calculator, the *)
(* scenario presets and the scenario state of the BitFrostEngine component. *)
(*                                                                         *)
(* Every `number` of the program is an IEEE-754 binary64 value.  The model *)
(* computes with binary64 values bit for bit: a finite value is a sign, a  *)
(* 53-bit significand and a binary exponent, and every arithmetic          *)
(* operation rounds to nearest, ties to even, as ECMAScript does.  TLC's   *)
(* integers are 32 bits wide, so a significand is kept as two digits of    *)
(* 28 bits and the exact results are computed on four such digits.         *)
(*                                                                         *)
(* Not modelled: the exponent range (no overflow to Infinity, no           *)
(* subnormals; the inputs of the model keep every magnitude far inside the *)
(* binary64 range) and the sign of zero (no operation of the program       *)
(* observes it).                                                           *)
(***************************************************************************)
EXTENDS Integers, Sequences, FiniteSets, TLC

----------------------------------------------------------------------------
(* Wide naturals: <<w1, w2, w3, w4>>, the value w1 + w2 * 2^28 +           *)
(* w3 * 2^56 + w4 * 2^84 with every digit below 2^28 (the product of two   *)
(* 14-bit halves of a digit, and a sum of four of them, fits TLC's         *)
(* integers).                                                              *)

Half == 2^14
Digit == 2^28

\* the number of bits of n, for n < 2^(2k) and k a power of two (or 0)
RECURSIVE BitsIn(_, _)
BitsIn(n, k) ==
  IF k = 0 THEN n
  ELSE IF n >= 2^k THEN k + BitsIn(n \div 2^k, k \div 2)
  ELSE BitsIn(n, k \div 2)

\* the number of bits of n, 0 <= n < 2^31
IntBits(n) == BitsIn(n, 16)

\* digit i of w, and 0 for a digit w does not have
DigitAt(w, i) == IF 1 <= i /\ i <= 4 THEN w[i] ELSE 0

\* the number of bits of w
WBits(w) ==
  IF w[4] # 0 THEN 84 + IntBits(w[4])
  ELSE IF w[3] # 0 THEN 56 + IntBits(w[3])
  ELSE IF w[2] # 0 THEN 28 + IntBits(w[2])
  ELSE IntBits(w[1])

\* a digit of floor(w / low) from digits j and j + 1 of w, for low = 2^r, r < 28
ShrDigit(w, j, low) ==
  (DigitAt(w, j) \div low) + (DigitAt(w, j + 1) % low) * (Digit \div low)

\* floor(w / 2^k)
WShr(w, k) == [i \in 1..4 |-> ShrDigit(w, i + k \div 28, 2^(k % 28))]

\* a digit of w * mul from digits j and j - 1 of w, for mul = 2^r, r < 28
ShlDigit(w, j, mul) ==
  (DigitAt(w, j) % (Digit \div mul)) * mul + DigitAt(w, j - 1) \div (Digit \div mul)

\* w * 2^k, for a product below 2^112
WShl(w, k) == [i \in 1..4 |-> ShlDigit(w, i - k \div 28, 2^(k % 28))]

\* the n lowest bits of the digit d
LowPart(d, n) == IF n <= 0 THEN 0 ELSE IF n >= 28 THEN d ELSE d % (2^n)

\* whether w has a 1 among its k lowest bits
WLowBits(w, k) == \E i \in 1..4 : LowPart(w[i], k - 28 * (i - 1)) # 0

\* the digits i.. of a + b, where t is the sum of the digits i and the carry
RECURSIVE AddFrom(_, _, _, _)
AddFrom(a, b, i, t) ==
  IF i = 4 THEN <<t>>
  ELSE <<t % Digit>> \o AddFrom(a, b, i + 1, a[i + 1] + b[i + 1] + t \div Digit)

\* a + b, for a sum below 2^112
WAdd(a, b) == AddFrom(a, b, 1, a[1] + b[1])

\* the digits i.. of a - b, where t is the difference of the digits i less
\* the borrow
RECURSIVE SubFrom(_, _, _, _)
SubFrom(a, b, i, t) ==
  IF i = 4 THEN <<t>>
  ELSE <<(t + Digit) % Digit>>
       \o SubFrom(a, b, i + 1, a[i + 1] - b[i + 1] - (IF t < 0 THEN 1 ELSE 0))

\* a - b, for a >= b
WSub(a, b) == SubFrom(a, b, 1, a[1] - b[1])

\* -1, 0, 1 as a < b, a = b, a > b
WCmp(a, b) ==
  IF a[4] # b[4] THEN (IF a[4] < b[4] THEN -1 ELSE 1)
  ELSE IF a[3] # b[3] THEN (IF a[3] < b[3] THEN -1 ELSE 1)
  ELSE IF a[2] # b[2] THEN (IF a[2] < b[2] THEN -1 ELSE 1)
  ELSE IF a[1] # b[1] THEN (IF a[1] < b[1] THEN -1 ELSE 1)
  ELSE 0

\* the four 14-bit halves of hi * 2^28 + lo, lowest first
Halves(hi, lo) == <<lo % Half, lo \div Half, hi % Half, hi \div Half>>

\* the sum of the products of halves of a and b that weigh 2^(14 (k - 1))
Column(a, b, k) ==
  a[1] * DigitAt(b, k) + a[2] * DigitAt(b, k - 1)
  + a[3] * DigitAt(b, k - 2) + a[4] * DigitAt(b, k - 3)

\* the halves k.. of a * b, where t is column k plus the carry into it
RECURSIVE MulFrom(_, _, _, _)
MulFrom(a, b, k, t) ==
  IF k = 8 THEN <<t>>
  ELSE <<t % Half>> \o MulFrom(a, b, k + 1, Column(a, b, k + 1) + t \div Half)

\* the wide natural of eight halves, lowest first
PackHalves(h) == [i \in 1..4 |-> h[2 * i - 1] + h[2 * i] * Half]

\* (xh * 2^28 + xl) * (yh * 2^28 + yl), for 53-bit factors, by 14-bit halves
WMul(xh, xl, yh, yl) ==
  PackHalves(MulFrom(Halves(xh, xl), Halves(yh, yl), 1,
                     Column(Halves(xh, xl), Halves(yh, yl), 1)))

\* long division by c of the halves i.. of hs (highest first), where t is
\* the remainder so far with the half i appended: the halves of the
\* quotient, then the last remainder
RECURSIVE DivFrom(_, _, _, _)
DivFrom(hs, i, c, t) ==
  IF i = Len(hs) THEN <<t \div c, t % c>>
  ELSE <<t \div c>> \o DivFrom(hs, i + 1, c, (t % c) * Half + hs[i + 1])

\* the quotient of a long division as a wide natural, and whether it left a
\* remainder
Quotient(d) ==
  [q   |-> <<d[5] * Half + d[6], d[3] * Half + d[4], d[1] * Half + d[2], 0>>,
   rem |-> d[7] # 0]

\* floor((xh * 2^28 + xl) * 2^28 / c) and whether the division leaves a
\* remainder, for 0 < c < 2^14
WDivHalf(xh, xl, c) ==
  Quotient(DivFrom(<<xh \div Half, xh % Half, xl \div Half, xl % Half, 0, 0>>,
                   1, c, xh \div Half))

\* on <<low digit, high digit>>: n >= d, n - d, 2n + bit
Ge2(n, d) == n[2] > d[2] \/ (n[2] = d[2] /\ n[1] >= d[1])
Sub2(n, d) ==
  <<(n[1] - d[1] + Digit) % Digit, n[2] - d[2] - (IF n[1] < d[1] THEN 1 ELSE 0)>>
Dbl2(n, bit) ==
  <<(2 * n[1] + bit) % Digit, 2 * n[2] + (2 * n[1] + bit) \div Digit>>

\* floor(n * 2^k / d) by restoring division, and whether a remainder is left,
\* for n < 2d < 2^54 (n, d and the quotient q as <<low digit, high digit>>)
RECURSIVE WDivBits(_, _, _, _)
\* n1 is what the subtraction of this step left, q1 the quotient with its bit
\* (q1 is looked at in every step, so that TLC computes it step by step and
\* not as 55 nested doublings at the end)
DivStep(n1, d, k, q1) ==
  IF k = 0 \/ q1[2] < 0
    THEN [q |-> <<q1[1], q1[2], 0, 0>>, rem |-> n1 # <<0, 0>>]
  ELSE WDivBits(Dbl2(n1, 0), d, k - 1, q1)

WDivBits(n, d, k, q) ==
  DivStep(IF Ge2(n, d) THEN Sub2(n, d) ELSE n, d, k,
          Dbl2(q, IF Ge2(n, d) THEN 1 ELSE 0))

----------------------------------------------------------------------------
(* binary64: NaN, or (-1)^s * m * 2^e with m = hi * 2^28 + lo and either   *)
(* m = 0 (then s = 0 and e = 0) or 2^52 <= m < 2^53.  One value has one    *)
(* representation, so = on these records is "the same number value".       *)

Precision == 53

NaN == [nan |-> TRUE, s |-> 0, hi |-> 0, lo |-> 0, e |-> 0]
Zero == [nan |-> FALSE, s |-> 0, hi |-> 0, lo |-> 0, e |-> 0]

IsNaN(x) == x.nan
IsZero(x) == ~x.nan /\ x.hi = 0

Mantissa(x) == <<x.lo, x.hi, 0, 0>>

\* the finite value (-1)^s * (hi * 2^28 + lo) * 2^e of a normalized significand
Finite(s, hi, lo, e) == [nan |-> FALSE, s |-> s, hi |-> hi, lo |-> lo, e |-> e]

\* the same, for the significand as a wide natural
FiniteOf(s, m, e) == Finite(s, m[2], m[1], e)

\* a significand that rounding carried up to 2^53 is 2^52 with e one higher
Renormalize(s, hi, lo, e) ==
  IF hi >= 2^(Precision - 28) THEN Finite(s, hi \div 2, 0, e + 1)
  ELSE Finite(s, hi, lo, e)

\* the significand hi * 2^28 + lo, plus 1 if up
RoundUp(s, hi, lo, up, e) ==
  IF up THEN Renormalize(s, hi + (lo + 1) \div Digit, (lo + 1) % Digit, e)
  ELSE Finite(s, hi, lo, e)

\* t is the significand followed by the round bit; below says whether the
\* exact value has anything under the round bit.  Round to nearest, ties to
\* even: up iff the round bit is 1 and (below or the significand is odd)
RoundHalfEven(s, t, below, e) ==
  RoundUp(s, t[2] \div 2, t[1] \div 2 + (t[2] % 2) * (Digit \div 2),
          (t[1] % 2) = 1 /\ (below \/ ((t[1] \div 2) % 2) = 1), e)

\* RoundToDouble for a w of len bits
RoundBits(s, w, e, sticky, len) ==
  IF len = 0 THEN Zero
  ELSE IF len <= Precision
    THEN FiniteOf(s, WShl(w, Precision - len), e - (Precision - len))
  ELSE RoundHalfEven(s, WShr(w, len - Precision - 1),
                     sticky \/ WLowBits(w, len - Precision - 1),
                     e + (len - Precision))

\* the binary64 nearest to (-1)^s * (w + f) * 2^e, ties to even, where
\* 0 < f < 1 if sticky and f = 0 otherwise; a sticky w has over Precision bits
RoundToDouble(s, w, e, sticky) == RoundBits(s, w, e, sticky, WBits(w))

\* unary -
NumNeg(x) == IF IsNaN(x) \/ IsZero(x) THEN x ELSE [x EXCEPT !.s = 1 - x.s]

\* x * y
NumMul(x, y) ==
  IF IsNaN(x) \/ IsNaN(y) THEN NaN
  ELSE IF IsZero(x) \/ IsZero(y) THEN Zero
  ELSE RoundToDouble((x.s + y.s) % 2, WMul(x.hi, x.lo, y.hi, y.lo),
                     x.e + y.e, FALSE)

\* (-1)^xs * a * 2^e + (-1)^ys * b * 2^e, where c is WCmp(a, b)
AddSigned(xs, a, ys, b, e, c) ==
  RoundToDouble(IF xs = ys \/ c > 0 THEN xs ELSE ys,
                IF xs = ys THEN WAdd(a, b)
                ELSE IF c >= 0 THEN WSub(a, b) ELSE WSub(b, a),
                e, FALSE)

AddAligned(xs, a, ys, b, e) == AddSigned(xs, a, ys, b, e, WCmp(a, b))

\* x + y for finite x, y other than 0 whose lower exponent is e
AddAt(x, y, e) ==
  AddAligned(x.s, WShl(Mantissa(x), x.e - e), y.s, WShl(Mantissa(y), y.e - e), e)

\* x + y (an operand over 2^(Precision + 3) times the other is the sum)
NumAdd(x, y) ==
  IF IsNaN(x) \/ IsNaN(y) THEN NaN
  ELSE IF IsZero(x) THEN y
  ELSE IF IsZero(y) THEN x
  ELSE IF x.e - y.e > Precision + 3 THEN x
  ELSE IF y.e - x.e > Precision + 3 THEN y
  ELSE AddAt(x, y, IF x.e < y.e THEN x.e ELSE y.e)

\* x - y
NumSub(x, y) == NumAdd(x, NumNeg(y))

\* the digits of x / y and its exponent for significands n >= d (ge) or
\* n < d: n or 2n is divided by d
DivBits(x, y, ge) ==
  [d |-> WDivBits(IF ge THEN <<x.lo, x.hi>> ELSE Dbl2(<<x.lo, x.hi>>, 0),
                  <<y.lo, y.hi>>, Precision + 2, <<0, 0>>),
   e |-> x.e - y.e - (Precision + 2) - (IF ge THEN 0 ELSE 1)]

\* the same for y = c * 2^(y.e + 39) with c below 2^14
DivHalf(x, y) ==
  [d |-> WDivHalf(x.hi, x.lo, y.hi \div (2^11)), e |-> x.e - 28 - (y.e + 39)]

\* the rounded quotient, from the digits of the quotient r.d.q, whether the
\* division left a remainder r.d.rem, and the exponent r.e
RoundQuotient(s, r) == RoundToDouble(s, r.d.q, r.e, r.d.rem)

\* x / y, for a finite y other than 0 (the calculator divides by constants)
NumDiv(x, y) ==
  IF IsNaN(x) \/ IsNaN(y) THEN NaN
  ELSE IF IsZero(x) THEN Zero
  ELSE RoundQuotient((x.s + y.s) % 2,
                     IF y.lo = 0 /\ (y.hi % (2^11)) = 0 THEN DivHalf(x, y)
                     ELSE DivBits(x, y, Ge2(<<x.lo, x.hi>>, <<y.lo, y.hi>>)))

\* whether x is below 0
IsNegative(x) == ~IsNaN(x) /\ ~IsZero(x) /\ x.s = 1

\* whether x is above 0
IsPositive(x) == ~IsNaN(x) /\ ~IsZero(x) /\ x.s = 0

\* x < y, x >= y (false when either is NaN)
NumLt(x, y) == ~IsNaN(x) /\ ~IsNaN(y) /\ IsNegative(NumSub(x, y))

NumGe(x, y) == ~IsNaN(x) /\ ~IsNaN(y) /\ ~NumLt(x, y)

\* the value of the natural number n with sign s
Magnitude(s, n) == RoundToDouble(s, <<n % Digit, n \div Digit, 0, 0>>, 0, FALSE)

\* the value of an integer of the model
Int2Num(n) == Magnitude(IF n < 0 THEN 1 ELSE 0, IF n < 0 THEN -n ELSE n)

\* 10^p, for 0 <= p <= 22 (these powers are binary64 values)
RECURSIVE Pow10(_)
Pow10(p) == IF p = 0 THEN Int2Num(1) ELSE NumMul(Pow10(p - 1), Int2Num(10))

\* x * y if up, x / y otherwise
Scale(x, y, up) == IF up THEN NumMul(x, y) ELSE NumDiv(x, y)

\* the value of the decimal numeral d * 10^p (|d| < 2^31, |p| <= 22): as
\* ECMAScript reads a numeric literal, the binary64 nearest to it
Dec(d, p) == Scale(Int2Num(d), Pow10(IF p < 0 THEN -p ELSE p), p >= 0)

----------------------------------------------------------------------------
(* The program's constants and the scenario presets.                       *)

DAYS_PER_YEAR == Int2Num(365)
MONTHS_PER_YEAR == Int2Num(12)
BPS_PER_UNIT == Int2Num(10000)

\* the literal 100 (percent fields, fundingROE)
Hundred == Int2Num(100)

\* keyof ScenarioParams
Keys ==
  {"dailyVolume", "internalMatchRatio", "clearingFee", "nettingFee",
   "hlFundingRate", "archBorrowRate", "frictionCost", "equity", "leverage",
   "monthlyLiquidations", "liquidationFee", "dailyHedge", "hedgeEfficiency"}

\* the object literals of the SCENARIOS table
ScenarioLiteral ==
  [bear |->
     [dailyVolume |-> Dec(5, 8), internalMatchRatio |-> Dec(30, -2),
      clearingFee |-> Dec(15, -1), nettingFee |-> Dec(5, -1),
      hlFundingRate |-> Dec(2, 0), archBorrowRate |-> Dec(3, 0),
      frictionCost |-> Dec(15, -1), equity |-> Dec(5, 7),
      leverage |-> Dec(20, -1), monthlyLiquidations |-> Dec(1, 7),
      liquidationFee |-> Dec(3, -1), dailyHedge |-> Dec(5, 7),
      hedgeEfficiency |-> Dec(2, -1)],
   base |->
     [dailyVolume |-> Dec(2, 9), internalMatchRatio |-> Dec(50, -2),
      clearingFee |-> Dec(15, -1), nettingFee |-> Dec(5, -1),
      hlFundingRate |-> Dec(8, 0), archBorrowRate |-> Dec(25, -1),
      frictionCost |-> Dec(12, -1), equity |-> Dec(1, 8),
      leverage |-> Dec(80, -1), monthlyLiquidations |-> Dec(5, 7),
      liquidationFee |-> Dec(4, -1), dailyHedge |-> Dec(2, 8),
      hedgeEfficiency |-> Dec(5, -1)],
   bull |->
     [dailyVolume |-> Dec(5, 9), internalMatchRatio |-> Dec(65, -2),
      clearingFee |-> Dec(15, -1), nettingFee |-> Dec(5, -1),
      hlFundingRate |-> Dec(25, 0), archBorrowRate |-> Dec(2, 0),
      frictionCost |-> Dec(8, -1), equity |-> Dec(2, 8),
      leverage |-> Dec(120, -1), monthlyLiquidations |-> Dec(15, 7),
      liquidationFee |-> Dec(5, -1), dailyHedge |-> Dec(5, 8),
      hedgeEfficiency |-> Dec(10, -1)]]

----------------------------------------------------------------------------
(* class RevenueCalculator.  The revenue streams of calculate, one         *)
(* definition per statement, named as the statement's constant.            *)

R_clear(V_d, alpha, f_c, f_n) ==
  NumMul(NumMul(NumMul(DAYS_PER_YEAR, V_d), alpha), NumAdd(f_c, f_n))

\* const s = f_H - r_l - kappa
Spread(f_H, r_l, kappa) == NumSub(NumSub(f_H, r_l), kappa)

\* a changed Notional: the sum of leverage and equity
Notional_Sum(L, E) == NumAdd(L, E)

\* a changed Notional: equity left out
Notional_LeverageOnly(L, E) == L

\* const N = L * E
Notional(L, E) == NumMul(L, E)

\* a changed R_funding: Math.max(0, s * N)
R_funding_Clamped(s, N) ==
  IF IsNegative(NumMul(s, N)) THEN Zero ELSE NumMul(s, N)

R_funding(s, N) == NumMul(s, N)

\* a changed R_liq: annualized by days
R_liq_Daily(L_m, phi) == NumMul(NumMul(DAYS_PER_YEAR, L_m), phi)

R_liq(L_m, phi) == NumMul(NumMul(MONTHS_PER_YEAR, L_m), phi)

R_hedge(H_d, eta) == NumMul(NumMul(DAYS_PER_YEAR, H_d), eta)

\* a changed R_total: hedging left out
R_total_NoHedge(clear, funding, liq, hedge) ==
  NumAdd(NumAdd(clear, funding), liq)

R_total(clear, funding, liq, hedge) ==
  NumAdd(NumAdd(NumAdd(clear, funding), liq), hedge)

\* a changed RevenueResult: the divisors of monthlyAvg and dailyAvg swapped
RevenueResult_SwappedAvg(total, clear, funding, liq, hedge, s, N, L) ==
  [total            |-> total,
   clearing         |-> clear,
   funding          |-> funding,
   liquidations     |-> liq,
   hedging          |-> hedge,
   monthlyAvg       |-> NumDiv(total, DAYS_PER_YEAR),
   dailyAvg         |-> NumDiv(total, MONTHS_PER_YEAR),
   fundingSpread    |-> s,
   deployedNotional |-> N,
   fundingROE       |-> NumMul(NumMul(s, L), Hundred),
   clearingDaily    |-> NumDiv(clear, DAYS_PER_YEAR),
   hedgeDaily       |-> NumDiv(hedge, DAYS_PER_YEAR)]

\* a changed RevenueResult: fundingROE on the notional (leverage * equity)
RevenueResult_RoeOnNotional(total, clear, funding, liq, hedge, s, N, L) ==
  [total            |-> total,
   clearing         |-> clear,
   funding          |-> funding,
   liquidations     |-> liq,
   hedging          |-> hedge,
   monthlyAvg       |-> NumDiv(total, MONTHS_PER_YEAR),
   dailyAvg         |-> NumDiv(total, DAYS_PER_YEAR),
   fundingSpread    |-> s,
   deployedNotional |-> N,
   fundingROE       |-> NumMul(NumMul(s, N), Hundred),
   clearingDaily    |-> NumDiv(clear, DAYS_PER_YEAR),
   hedgeDaily       |-> NumDiv(hedge, DAYS_PER_YEAR)]

\* the object calculate returns
RevenueResult(total, clear, funding, liq, hedge, s, N, L) ==
  [total            |-> total,
   clearing         |-> clear,
   funding          |-> funding,
   liquidations     |-> liq,
   hedging          |-> hedge,
   monthlyAvg       |-> NumDiv(total, MONTHS_PER_YEAR),
   dailyAvg         |-> NumDiv(total, DAYS_PER_YEAR),
   fundingSpread    |-> s,
   deployedNotional |-> N,
   fundingROE       |-> NumMul(NumMul(s, L), Hundred),
   clearingDaily    |-> NumDiv(clear, DAYS_PER_YEAR),
   hedgeDaily       |-> NumDiv(hedge, DAYS_PER_YEAR)]

\* const R_total = ...; return { ... }
Total(clear, funding, liq, hedge, s, N, L) ==
  RevenueResult(R_total(clear, funding, liq, hedge),
                clear, funding, liq, hedge, s, N, L)

\* const R_funding = s * N
Funding(clear, s, N, liq, hedge, L) ==
  Total(clear, R_funding(s, N), liq, hedge, s, N, L)

\* the statements of calculate after the normalized constants V_d .. eta
Streams(V_d, alpha, f_c, f_n, f_H, r_l, kappa, E, L, L_m, phi, H_d, eta) ==
  Funding(R_clear(V_d, alpha, f_c, f_n), Spread(f_H, r_l, kappa),
          Notional(L, E), R_liq(L_m, phi), R_hedge(H_d, eta), L)

calculate(params) ==
  Streams(params.dailyVolume,                            \* V_d
          params.internalMatchRatio,                     \* alpha
          NumDiv(params.clearingFee, BPS_PER_UNIT),      \* f_c
          NumDiv(params.nettingFee, BPS_PER_UNIT),       \* f_n
          NumDiv(params.hlFundingRate, Hundred),         \* f_H
          NumDiv(params.archBorrowRate, Hundred),        \* r_l
          NumDiv(params.frictionCost, BPS_PER_UNIT),     \* kappa
          params.equity,                                 \* E
          params.leverage,                               \* L
          params.monthlyLiquidations,                    \* L_m
          NumDiv(params.liquidationFee, Hundred),        \* phi
          params.dailyHedge,                             \* H_d
          NumDiv(params.hedgeEfficiency, BPS_PER_UNIT))  \* eta

\* a changed ForecastPoint: total is the monthly average
ForecastPoint_Monthly(month, result) ==
  [month        |-> month,
   clearing     |-> NumDiv(result.clearing, DAYS_PER_YEAR),
   funding      |-> NumDiv(result.funding, DAYS_PER_YEAR),
   liquidations |-> NumDiv(result.liquidations, DAYS_PER_YEAR),
   hedging      |-> NumDiv(result.hedging, DAYS_PER_YEAR),
   total        |-> result.monthlyAvg]

\* one element of the array generateMonthlyForecast builds
ForecastPoint(month, result) ==
  [month        |-> month,
   clearing     |-> NumDiv(result.clearing, DAYS_PER_YEAR),
   funding      |-> NumDiv(result.funding, DAYS_PER_YEAR),
   liquidations |-> NumDiv(result.liquidations, DAYS_PER_YEAR),
   hedging      |-> NumDiv(result.hedging, DAYS_PER_YEAR),
   total        |-> result.dailyAvg]

\* for (let month = 1; month <= 12; month++) data.push(...)
RECURSIVE ForecastLoop(_, _, _)
ForecastLoop(result, month, data) ==
  IF month <= 12
    THEN ForecastLoop(result, month + 1, Append(data, ForecastPoint(month, result)))
    ELSE data

generateMonthlyForecast(params) ==
  ForecastLoop(calculate(params), 1, <<>>)

----------------------------------------------------------------------------
(* Formatting.  The text of a number with two fraction digits is kept as   *)
(* its sign and the natural number n of its hundredths: the text is the    *)
(* decimal numeral of n with the point before its last two digits.         *)

\* the integer nearest to t * 2^e, the larger one of two equally near
NearestInteger(t, e) ==
  IF e >= 0 THEN WShl(t, e)
  ELSE WShr(WAdd(WShr(t, (-e) - 1), <<1, 0, 0, 0>>), 1)

\* x.toFixed(fractionDigits), for |x| < 10^21: "NaN", or a "-" for x < 0 and
\* the n with n / 10^fractionDigits nearest to |x|
toFixed(x, fractionDigits) ==
  IF IsNaN(x) THEN [nan |-> TRUE, neg |-> FALSE, n |-> <<0, 0, 0, 0>>]
  ELSE [nan |-> FALSE,
        neg |-> IsNegative(x),
        n   |-> NearestInteger(WMul(x.hi, x.lo, 0, 10^fractionDigits), x.e)]

\* the template literal `$${amount}${suffix}`
Template(amount, suffix) == [amount |-> amount, suffix |-> suffix]

\* x > y (false when either is NaN)
NumGt(x, y) == NumLt(y, x)

\* a changed formatCurrency: > for >=
formatCurrency_Strict(value) ==
  IF NumGt(value, Int2Num(1000000000))
    THEN Template(toFixed(NumDiv(value, Int2Num(1000000000)), 2), "B")
  ELSE IF NumGt(value, Int2Num(1000000))
    THEN Template(toFixed(NumDiv(value, Int2Num(1000000)), 2), "M")
  ELSE IF NumGt(value, Int2Num(1000))
    THEN Template(toFixed(NumDiv(value, Int2Num(1000)), 2), "K")
  ELSE Template(toFixed(value, 2), "")

formatCurrency(value) ==
  IF NumGe(value, Int2Num(1000000000))
    THEN Template(toFixed(NumDiv(value, Int2Num(1000000000)), 2), "B")
  ELSE IF NumGe(value, Int2Num(1000000))
    THEN Template(toFixed(NumDiv(value, Int2Num(1000000)), 2), "M")
  ELSE IF NumGe(value, Int2Num(1000))
    THEN Template(toFixed(NumDiv(value, Int2Num(1000)), 2), "K")
  ELSE Template(toFixed(value, 2), "")

----------------------------------------------------------------------------
(* Objects and React state.  A ScenarioParams object lives in the heap at  *)
(* an address; a table entry, a state variable, a prop or a dependency     *)
(* list holds the address.  Objects no reference reaches are dropped.      *)

\* the SCENARIOS table: name -> the address of the stored preset
SCENARIOS == [bear |-> 1, base |-> 2, bull |-> 3]

ScenarioNames == DOMAIN SCENARIOS

\* the heap once the module is loaded
InitialHeap == [a \in {SCENARIOS[n] : n \in ScenarioNames} |->
                 ScenarioLiteral[CHOOSE n \in ScenarioNames : SCENARIOS[n] = a]]

\* the address `new` takes: the lowest one not in use
NewAddr(h) ==
  CHOOSE a \in 1..(Cardinality(DOMAIN h) + 1) :
    a \notin DOMAIN h /\ \A b \in 1..(a - 1) : b \in DOMAIN h

\* a changed SpreadUpdate: prev[key] = value; return prev
SpreadUpdate_InPlace(h, prev, key, value) ==
  [heap |-> [h EXCEPT ![prev][key] = value], ref |-> prev]

\* a changed SpreadUpdate: ({ ...SCENARIOS.base, [key]: value })
SpreadUpdate_FromDefault(h, prev, key, value) ==
  [heap |-> [b \in DOMAIN h \cup {NewAddr(h)} |->
               IF b = NewAddr(h) THEN [h[SCENARIOS.base] EXCEPT ![key] = value]
               ELSE h[b]],
   ref  |-> NewAddr(h)]

\* (prev) => ({ ...prev, [key]: value }): a new object, prev left as it is
SpreadUpdate(h, prev, key, value) ==
  LET a == NewAddr(h)
  IN  [heap |-> [b \in DOMAIN h \cup {a} |->
                   IF b = a THEN [h[prev] EXCEPT ![key] = value] ELSE h[b]],
       ref  |-> a]

\* the heap without the objects that no root reaches
Collect(h, roots) == [a \in DOMAIN h \cap roots |-> h[a]]

\* the text of an <input type="number">: empty, or a decimal numeral
\* digits * 10^exp
EmptyText == [empty |-> TRUE, digits |-> 0, exp |-> 0]
Numeral(d, p) == [empty |-> FALSE, digits |-> d, exp |-> p]

parseFloat(text) == IF text.empty THEN NaN ELSE Dec(text.digits, text.exp)

\* a changed UseMemoCalculate: useMemo(() => calculator.calculate(params), [])
UseMemoCalculate_Once(memo, h, dep) ==
  IF memo.deps # 0 THEN memo ELSE [deps |-> dep, value |-> calculate(h[dep])]

\* useMemo(() => calculator.calculate(params), [params])
UseMemoCalculate(memo, h, dep) ==
  IF memo.deps = dep THEN memo ELSE [deps |-> dep, value |-> calculate(h[dep])]

\* useMemo(() => calculator.generateMonthlyForecast(params), [params])
UseMemoForecast(memo, h, dep) ==
  IF memo.deps = dep THEN memo
  ELSE [deps |-> dep, value |-> generateMonthlyForecast(h[dep])]

\* a memo cell before its first render: no address is 0
NoMemo == [deps |-> 0, value |-> <<>>]

\* no ScenarioTab is mounted (the comparison view is shown)
NoTab == [mounted |-> FALSE]

\* the ScenarioTab element after a render: the one of `old` if it is the
\* tab of the same scenario, a newly mounted one otherwise
ScenarioTab(old, name, h, params) ==
  LET kept == old.mounted /\ old.name = name
  IN  [mounted     |-> TRUE,
       name        |-> name,
       params      |-> params,
       result      |-> UseMemoCalculate(IF kept THEN old.result ELSE NoMemo,
                                        h, params),
       monthlyData |-> UseMemoForecast(IF kept THEN old.monthlyData ELSE NoMemo,
                                       h, params)]

----------------------------------------------------------------------------
(* The state of BitFrostEngine, and of a caller of the calculator.         *)

VARIABLES
  heap,         \* address -> ScenarioParams object
  activeTab,    \* useState: 'bear' | 'base' | 'bull' | 'comparison'
  bearParams,   \* useState: the address of the bear parameter set
  baseParams,
  bullParams,
  bearResult,   \* useMemo cell of BitFrostEngine: [deps, value]
  baseResult,
  bullResult,
  scenarioTab,  \* the mounted ScenarioTab element with its two memo cells
  edits,        \* the number of parameter edits so far
  sPc,          \* the caller: "idle", "lookup", "calculate", "other",
                \* "forecast", "done", "TypeError"
  sIn,          \* the caller's request
  sParams,      \* the parameter set it passes, or undefined
  sOther,       \* a second parameter set
  sResult,      \* calculate(sParams)
  sOtherResult, \* calculate(sOther)
  sForecast,    \* generateMonthlyForecast(sParams)
  fPc,          \* a caller of formatCurrency: "idle", "format", "done"
  fIn,          \* the number it passes, as written
  fText         \* formatCurrency of that number

appVars == <<heap, activeTab, bearParams, baseParams, bullParams,
             bearResult, baseResult, bullResult, scenarioTab, edits>>
callerVars == <<sPc, sIn, sParams, sOther, sResult, sOtherResult, sForecast>>
formatVars == <<fPc, fIn, fText>>
vars == <<appVars, callerVars, formatVars>>

\* the most parameter edits in one run
MaxEdits == 2

\* what the user may have typed into an input field
Texts == {EmptyText, Numeral(25, -1)}

\* the input fields the user types into
EditKeys == {"hlFundingRate", "equity"}

Tabs == {"bear", "base", "bull", "comparison"}

ParamsOf(tab, bear, base, bull) ==
  IF tab = "bear" THEN bear ELSE IF tab = "base" THEN base ELSE bull

\* one render of BitFrostEngine with the given state: the three memo cells,
\* the ScenarioTab of the active tab, and the heap the render leaves
Render(h, tab, bear, base, bull) ==
  /\ bearResult' = UseMemoCalculate(bearResult, h, bear)
  /\ baseResult' = UseMemoCalculate(baseResult, h, base)
  /\ bullResult' = UseMemoCalculate(bullResult, h, bull)
  /\ scenarioTab' = IF tab = "comparison" THEN NoTab
                    ELSE ScenarioTab(scenarioTab, tab, h,
                                     ParamsOf(tab, bear, base, bull))
  /\ heap' = Collect(h, {SCENARIOS[n] : n \in ScenarioNames}
                          \cup {bear, base, bull})

\* property access on undefined (SCENARIOS[name] for a name not in the table)
Undefined == [undefined |-> TRUE]

CallerIdle ==
  /\ sPc = "idle"
  /\ sIn = <<>>
  /\ sParams = <<>>
  /\ sOther = <<>>
  /\ sResult = <<>>
  /\ sOtherResult = <<>>
  /\ sForecast = <<>>

\* BitFrostEngine after its first render
AppInit ==
  /\ heap = InitialHeap
  /\ activeTab = "base"
  /\ bearParams = SCENARIOS.bear
  /\ baseParams = SCENARIOS.base
  /\ bullParams = SCENARIOS.bull
  /\ bearResult = UseMemoCalculate(NoMemo, heap, SCENARIOS.bear)
  /\ baseResult = UseMemoCalculate(NoMemo, heap, SCENARIOS.base)
  /\ bullResult = UseMemoCalculate(NoMemo, heap, SCENARIOS.bull)
  /\ scenarioTab = ScenarioTab(NoTab, "base", heap, SCENARIOS.base)
  /\ edits = 0

FormatIdle ==
  /\ fPc = "idle"
  /\ fIn = <<>>
  /\ fText = <<>>

Init == AppInit /\ CallerIdle /\ FormatIdle

\* onChange of an input of the bear tab: onParamChange(key, parseFloat(text))
handleBearChange(key, value) ==
  /\ scenarioTab.mounted /\ scenarioTab.name = "bear"
  /\ edits < MaxEdits
  /\ edits' = edits + 1
  /\ LET u == SpreadUpdate(heap, bearParams, key, value)
     IN  /\ bearParams' = u.ref
         /\ Render(u.heap, activeTab, u.ref, baseParams, bullParams)
  /\ UNCHANGED <<activeTab, baseParams, bullParams>>

handleBaseChange(key, value) ==
  /\ scenarioTab.mounted /\ scenarioTab.name = "base"
  /\ edits < MaxEdits
  /\ edits' = edits + 1
  /\ LET u == SpreadUpdate(heap, baseParams, key, value)
     IN  /\ baseParams' = u.ref
         /\ Render(u.heap, activeTab, bearParams, u.ref, bullParams)
  /\ UNCHANGED <<activeTab, bearParams, bullParams>>

handleBullChange(key, value) ==
  /\ scenarioTab.mounted /\ scenarioTab.name = "bull"
  /\ edits < MaxEdits
  /\ edits' = edits + 1
  /\ LET u == SpreadUpdate(heap, bullParams, key, value)
     IN  /\ bullParams' = u.ref
         /\ Render(u.heap, activeTab, bearParams, baseParams, u.ref)
  /\ UNCHANGED <<activeTab, bearParams, baseParams>>

\* onClick of a tab button
setActiveTab(tab) ==
  /\ tab # activeTab
  /\ activeTab' = tab
  /\ Render(heap, tab, bearParams, baseParams, bullParams)
  /\ UNCHANGED <<bearParams, baseParams, bullParams, edits>>

Next ==
  \/ \E key \in EditKeys, text \in Texts :
       handleBearChange(key, parseFloat(text)) /\ UNCHANGED <<callerVars, formatVars>>
  \/ \E key \in EditKeys, text \in Texts :
       handleBaseChange(key, parseFloat(text)) /\ UNCHANGED <<callerVars, formatVars>>
  \/ \E key \in EditKeys, text \in Texts :
       handleBullChange(key, parseFloat(text)) /\ UNCHANGED <<callerVars, formatVars>>
  \/ \E tab \in Tabs : setActiveTab(tab) /\ UNCHANGED <<callerVars, formatVars>>

Spec == Init /\ [][Next]_vars

----------------------------------------------------------------------------
(* A caller of the module: it reads a preset from the table by name,       *)
(* overrides one field (or none), derives a second parameter set with one  *)
(* field doubled, and calls calculate on both and generateMonthlyForecast  *)
(* on the first.                                                           *)

RequestNames == {"bear", "base", "bull", "bull2"}

InputValues == {Zero, NaN, Dec(-25, -1), Dec(1, 5)}

ScaledKeys == {"equity", "leverage"}

Requests ==
  {[name |-> n, key |-> "none", value |-> Zero, scaled |-> c] :
     n \in RequestNames, c \in ScaledKeys}
  \cup
  {[name |-> n, key |-> k, value |-> v, scaled |-> c] :
     n \in RequestNames, k \in Keys, v \in InputValues, c \in ScaledKeys}

\* SCENARIOS[name]: the stored object, or undefined for a name not in the table
ScenarioLookup(h, name) ==
  IF name \in DOMAIN SCENARIOS THEN h[SCENARIOS[name]] ELSE Undefined

\* { ...preset, [key]: value }, or the preset as it is when key is "none"
WithOverride(preset, key, value) ==
  IF key \in Keys THEN [preset EXCEPT ![key] = value] ELSE preset

\* { ...params, [key]: 2 * params[key] }
WithDoubled(params, key) ==
  [params EXCEPT ![key] = NumMul(Int2Num(2), params[key])]

CallerInit ==
  /\ AppInit
  /\ FormatIdle
  /\ sPc = "lookup"
  /\ sIn \in Requests
  /\ sParams = <<>>
  /\ sOther = <<>>
  /\ sResult = <<>>
  /\ sOtherResult = <<>>
  /\ sForecast = <<>>

Lookup ==
  /\ sPc = "lookup"
  /\ LET preset == ScenarioLookup(heap, sIn.name)
     IN  IF preset = Undefined
           THEN sParams' = Undefined /\ sOther' = Undefined
           ELSE /\ sParams' = WithOverride(preset, sIn.key, sIn.value)
                /\ sOther' = WithDoubled(sParams', sIn.scaled)
  /\ sPc' = "calculate"
  /\ UNCHANGED <<sIn, sResult, sOtherResult, sForecast>>

\* calculate(sParams); reading params.dailyVolume of undefined throws
Calculate ==
  /\ sPc = "calculate"
  /\ IF sParams = Undefined
       THEN sPc' = "TypeError" /\ UNCHANGED sResult
       ELSE sPc' = "other" /\ sResult' = calculate(sParams)
  /\ UNCHANGED <<sIn, sParams, sOther, sOtherResult, sForecast>>

CalculateOther ==
  /\ sPc = "other"
  /\ sOtherResult' = calculate(sOther)
  /\ sPc' = "forecast"
  /\ UNCHANGED <<sIn, sParams, sOther, sResult, sForecast>>

Forecast ==
  /\ sPc = "forecast"
  /\ sForecast' = generateMonthlyForecast(sParams)
  /\ sPc' = "done"
  /\ UNCHANGED <<sIn, sParams, sOther, sResult, sOtherResult>>

CallerNext ==
  \/ Lookup /\ UNCHANGED <<appVars, formatVars>>
  \/ Calculate /\ UNCHANGED <<appVars, formatVars>>
  \/ CalculateOther /\ UNCHANGED <<appVars, formatVars>>
  \/ Forecast /\ UNCHANGED <<appVars, formatVars>>

SpecCalc == CallerInit /\ [][CallerNext]_vars

----------------------------------------------------------------------------
(* A caller of formatCurrency: it passes one number.                       *)

\* the digits and the powers of ten of the numbers passed: around each of
\* 1e3, 1e6 and 1e9, and on both sides of 0
FormatDigits == {0, 1, 5, 15, 125, 999, 1000, 1001, 1005, 9995, 99999, 999999}
FormatExps == -3..7

\* the numbers passed, as written: NaN, or digits * 10^exp
FormatInputs ==
  {[nan |-> TRUE, digits |-> 0, exp |-> 0]}
  \cup {[nan |-> FALSE, digits |-> sign * d, exp |-> p] :
          sign \in {1, -1}, d \in FormatDigits, p \in FormatExps}

\* the number value of an input
NumberOf(in) == IF in.nan THEN NaN ELSE Dec(in.digits, in.exp)

FormatInit ==
  /\ AppInit
  /\ CallerIdle
  /\ fPc = "format"
  /\ fIn \in FormatInputs
  /\ fText = <<>>

FormatCurrency ==
  /\ fPc = "format"
  /\ fText' = formatCurrency(NumberOf(fIn))
  /\ fPc' = "done"
  /\ UNCHANGED fIn

FormatNext == FormatCurrency /\ UNCHANGED <<appVars, callerVars>>

SpecFormat == FormatInit /\ [][FormatNext]_vars

----------------------------------------------------------------------------
(* The claims.  Those about calculate and generateMonthlyForecast are      *)
(* stated on the caller (SpecCalc), the one about the presets under edits  *)
(* on BitFrostEngine (Spec).                                               *)

\* the caller has sResult = calculate(sParams)
Calculated == sPc \in {"other", "forecast", "done"}

\* ... and sOtherResult = calculate(sOther)
BothCalculated == sPc \in {"forecast", "done"}

\* ... and sForecast = generateMonthlyForecast(sParams)
Forecasted == sPc = "done"

AllFinite(params) == \A k \in Keys : ~IsNaN(params[k])

\* clearing + funding + liquidations + hedging of a result, added left to right
SumOfStreams(r) ==
  NumAdd(NumAdd(NumAdd(r.clearing, r.funding), r.liquidations), r.hedging)

\* C1: for every parameter set with finite fields, the total of the result
\* of calculate is the sum clearing + funding + liquidations + hedging of the
\* same result's four stream fields.
TotalIsSumOfStreams ==
  (Calculated /\ AllFinite(sParams)) => sResult.total = SumOfStreams(sResult)

\* C1 happens: a finite, overridden parameter set whose result has all four
\* streams, one of them negative
TotalIsSumOfStreams_Witness ==
  /\ Forecasted /\ AllFinite(sParams) /\ sIn.key \in Keys
  /\ IsPositive(sResult.clearing) /\ IsNegative(sResult.funding)
  /\ IsPositive(sResult.liquidations) /\ IsPositive(sResult.hedging)
  /\ sResult.total = SumOfStreams(sResult)

\* the reference formulas, on the ratios fee / 10000 and rate / 100
RefBps(x) == NumDiv(x, Int2Num(10000))
RefPercent(x) == NumDiv(x, Int2Num(100))
RefClearing(p) ==
  NumMul(NumMul(NumMul(Int2Num(365), p.dailyVolume), p.internalMatchRatio),
         NumAdd(RefBps(p.clearingFee), RefBps(p.nettingFee)))
RefSpread(p) ==
  NumSub(NumSub(RefPercent(p.hlFundingRate), RefPercent(p.archBorrowRate)),
         RefBps(p.frictionCost))
RefNotional(p) == NumMul(p.leverage, p.equity)
RefLiquidations(p) ==
  NumMul(NumMul(Int2Num(12), p.monthlyLiquidations), RefPercent(p.liquidationFee))
RefHedging(p) ==
  NumMul(NumMul(Int2Num(365), p.dailyHedge), RefBps(p.hedgeEfficiency))

\* C2: for every parameter set, calculate returns the four streams and the
\* two intermediate quantities of the reference formulas: clearing = 365 *
\* dailyVolume * internalMatchRatio * (clearingFee/10000 + nettingFee/10000),
\* fundingSpread = hlFundingRate/100 - archBorrowRate/100 - frictionCost/10000,
\* deployedNotional = leverage * equity, funding = fundingSpread *
\* deployedNotional, liquidations = 12 * monthlyLiquidations *
\* (liquidationFee/100), hedging = 365 * dailyHedge * (hedgeEfficiency/10000).
ReferenceFormulas ==
  Calculated =>
    /\ sResult.clearing = RefClearing(sParams)
    /\ sResult.fundingSpread = RefSpread(sParams)
    /\ sResult.deployedNotional = RefNotional(sParams)
    /\ sResult.funding = NumMul(RefSpread(sParams), RefNotional(sParams))
    /\ sResult.liquidations = RefLiquidations(sParams)
    /\ sResult.hedging = RefHedging(sParams)

\* C2 happens: an overridden fee or rate field, and every stream computed
ReferenceFormulas_Witness ==
  /\ Calculated
  /\ sIn.key \in {"clearingFee", "frictionCost", "liquidationFee", "hedgeEfficiency"}
  /\ sIn.value = Dec(-25, -1)
  /\ sResult.liquidations = RefLiquidations(sParams)
  /\ \A f \in {"clearing", "funding", "liquidations", "hedging"} :
       ~IsNaN(sResult[f]) /\ ~IsZero(sResult[f])

\* the 'base' preset as the specification lists it
BaseValues ==
  [dailyVolume |-> Dec(2000000000, 0), internalMatchRatio |-> Dec(50, -2),
   clearingFee |-> Dec(15, -1), nettingFee |-> Dec(5, -1),
   hlFundingRate |-> Dec(8, 0), archBorrowRate |-> Dec(25, -1),
   frictionCost |-> Dec(12, -1), equity |-> Dec(100000000, 0),
   leverage |-> Dec(80, -1), monthlyLiquidations |-> Dec(50000000, 0),
   liquidationFee |-> Dec(4, -1), dailyHedge |-> Dec(200000000, 0),
   hedgeEfficiency |-> Dec(5, -1)]

\* C3: the stored 'base' preset has exactly the listed values, and calculate
\* applied to it yields clearing = 73,000,000, fundingSpread = 0.05488,
\* deployedNotional = 800,000,000, funding = 43,904,000, liquidations =
\* 2,400,000, hedging = 3,650,000 and total = 122,954,000.
BasePresetResult ==
  /\ ScenarioLookup(heap, "base") = BaseValues
  /\ (Calculated /\ sParams = ScenarioLookup(heap, "base")) =>
       /\ sResult.clearing = Dec(73000000, 0)
       /\ sResult.fundingSpread = Dec(5488, -5)
       /\ sResult.deployedNotional = Dec(800000000, 0)
       /\ sResult.funding = Dec(43904000, 0)
       /\ sResult.liquidations = Dec(2400000, 0)
       /\ sResult.hedging = Dec(3650000, 0)
       /\ sResult.total = Dec(122954000, 0)

\* C3 happens: calculate has been applied to the 'base' preset as stored
BasePresetResult_Witness ==
  /\ Forecasted /\ sIn.name = "base" /\ sIn.key = "none"
  /\ sParams = BaseValues
  /\ sResult.total = Dec(122954000, 0)

\* C4: for every parameter set, the result of calculate has monthlyAvg =
\* total / 12, dailyAvg = total / 365, clearingDaily = clearing / 365 and
\* hedgeDaily = hedging / 365, from the same result's fields.
AveragesOfResult ==
  Calculated =>
    /\ sResult.monthlyAvg = NumDiv(sResult.total, Int2Num(12))
    /\ sResult.dailyAvg = NumDiv(sResult.total, Int2Num(365))
    /\ sResult.clearingDaily = NumDiv(sResult.clearing, Int2Num(365))
    /\ sResult.hedgeDaily = NumDiv(sResult.hedging, Int2Num(365))

\* C4 happens: a result with a total whose two averages differ
AveragesOfResult_Witness ==
  /\ Calculated /\ sIn.key \in Keys /\ IsNegative(sResult.total)
  /\ sResult.monthlyAvg = NumDiv(sResult.total, Int2Num(12))
  /\ sResult.monthlyAvg # sResult.dailyAvg
  /\ IsPositive(sResult.clearingDaily) /\ IsPositive(sResult.hedgeDaily)

\* C5: for every parameter set, the result of calculate has fundingROE =
\* fundingSpread * leverage * 100, with the result's own fundingSpread and
\* the input's leverage; equity does not enter.
FundingROEOfResult ==
  /\ Calculated =>
       sResult.fundingROE =
         NumMul(NumMul(sResult.fundingSpread, sParams.leverage), Int2Num(100))
  /\ (BothCalculated /\ \A k \in Keys \ {"equity"} : sOther[k] = sParams[k]) =>
       sOtherResult.fundingROE = sResult.fundingROE

\* C5 happens: two parameter sets that differ in equity alone, with a
\* fundingROE other than 0
FundingROEOfResult_Witness ==
  /\ BothCalculated /\ sOther.equity # sParams.equity
  /\ \A k \in Keys \ {"equity"} : sOther[k] = sParams[k]
  /\ IsPositive(sResult.fundingROE)
  /\ sOtherResult.fundingROE = sResult.fundingROE

\* C6: for every parameter set, generateMonthlyForecast returns exactly 12
\* points with month = 1, 2, ..., 12 in that order, each with clearing =
\* result.clearing / 365, funding = result.funding / 365, liquidations =
\* result.liquidations / 365, hedging = result.hedging / 365 and total =
\* result.dailyAvg, where result = calculate(params).
ForecastIsFlat ==
  Forecasted =>
    /\ Len(sForecast) = 12
    /\ \A i \in 1..12 :
         /\ sForecast[i].month = i
         /\ sForecast[i].clearing = NumDiv(sResult.clearing, Int2Num(365))
         /\ sForecast[i].funding = NumDiv(sResult.funding, Int2Num(365))
         /\ sForecast[i].liquidations = NumDiv(sResult.liquidations, Int2Num(365))
         /\ sForecast[i].hedging = NumDiv(sResult.hedging, Int2Num(365))
         /\ sForecast[i].total = sResult.dailyAvg

\* C6 happens: a forecast of a result whose daily and monthly averages differ
ForecastIsFlat_Witness ==
  /\ Forecasted /\ Len(sForecast) = 12
  /\ sForecast[12].month = 12
  /\ sForecast[12].total = sResult.dailyAvg
  /\ sResult.dailyAvg # sResult.monthlyAvg
  /\ IsNegative(sForecast[1].funding)

\* q agrees with p in every field but equity, and q.equity = 2 * p.equity
EquityDoubled(p, q) ==
  /\ \A k \in Keys \ {"equity"} : q[k] = p[k]
  /\ q.equity = NumMul(Int2Num(2), p.equity)

\* C7: for parameter sets p and q that agree in every field except that
\* q.equity = 2 * p.equity, calculate(q) has twice the deployedNotional and
\* twice the funding of calculate(p), and the same fundingSpread, fundingROE,
\* clearing, liquidations and hedging.
DoublingEquity ==
  (BothCalculated /\ EquityDoubled(sParams, sOther)) =>
    /\ sOtherResult.deployedNotional
         = NumMul(Int2Num(2), sResult.deployedNotional)
    /\ sOtherResult.funding = NumMul(Int2Num(2), sResult.funding)
    /\ \A f \in {"fundingSpread", "fundingROE", "clearing", "liquidations",
                 "hedging"} : sOtherResult[f] = sResult[f]

\* C7 happens: equity doubled, and the funding it doubles is not 0
DoublingEquity_Witness ==
  /\ BothCalculated /\ EquityDoubled(sParams, sOther)
  /\ sOther.equity # sParams.equity
  /\ IsNegative(sResult.funding)
  /\ sOtherResult.funding = NumMul(Int2Num(2), sResult.funding)
  /\ sOtherResult.funding # sResult.funding

\* C8: after any sequence of parameter edits, every preset stored in the
\* SCENARIOS table has the values of its literal: a retrieval returns the
\* same values at any time, and an edit of a retrieved parameter set has
\* changed neither the stored default nor what another retrieval returns.
PresetsUnchanged ==
  \A n \in ScenarioNames : ScenarioLookup(heap, n) = ScenarioLiteral[n]

\* C8 happens: a field of the parameter set retrieved for 'base' was changed,
\* twice
PresetsUnchanged_Witness ==
  /\ edits = 2
  /\ baseParams # SCENARIOS.base
  /\ heap[baseParams].equity # ScenarioLiteral.base.equity
  /\ heap[baseParams].hlFundingRate # ScenarioLiteral.base.hlFundingRate
  /\ ScenarioLookup(heap, "base") = ScenarioLiteral.base

\* C9: requesting the defaults of a scenario name other than 'bear', 'base'
\* or 'bull' fails with the error UnknownScenario and returns nothing, not
\* even undefined.
UnknownScenarioFails ==
  (sPc # "lookup" /\ sPc # "idle" /\ sIn.name \notin {"bear", "base", "bull"}) =>
    (sPc = "UnknownScenario" /\ sParams = <<>>)

\* -1,014,999.9999999999 = -(1,015,000 - 2^-33), the binary64 next to
\* -1,015,000 towards 0
BearFunding == Finite(1, 32479999, 268435455, -33)

\* the part of C10 on every parameter set: a spread below 0 on a notional
\* above 0 gives a fundingSpread and a funding below 0, and the total is the
\* sum with that funding
NegativeSpreadSurfaces ==
  (/\ Calculated
   /\ IsNegative(RefSpread(sParams))
   /\ IsPositive(NumMul(sParams.leverage, sParams.equity))) =>
    /\ IsNegative(sResult.fundingSpread)
    /\ IsNegative(sResult.funding)
    /\ sResult.total = SumOfStreams(sResult)

\* C10 as written: calculate never clamps (NegativeSpreadSurfaces), and for
\* the 'bear' preset fundingSpread = -0.01015 and funding = -1,015,000.
NoClampingBearExact ==
  /\ NegativeSpreadSurfaces
  /\ (Calculated /\ sParams = ScenarioLookup(heap, "bear")) =>
       /\ sResult.fundingSpread = Dec(-1015, -5)
       /\ sResult.funding = Dec(-1015000, 0)

\* C10 amended: calculate never clamps (NegativeSpreadSurfaces), and for the
\* 'bear' preset fundingSpread = -0.01015 and funding is the binary64 product
\* of -0.01015 and 100,000,000, which is -1,014,999.9999999999: it differs
\* from -1,015,000 by 2^-33, one unit in the last place.
NoClampingBearRounded ==
  /\ NegativeSpreadSurfaces
  /\ (Calculated /\ sParams = ScenarioLookup(heap, "bear")) =>
       /\ sResult.fundingSpread = Dec(-1015, -5)
       /\ sResult.deployedNotional = Dec(100000000, 0)
       /\ sResult.funding = NumMul(Dec(-1015, -5), Dec(100000000, 0))
       /\ sResult.funding = BearFunding
       /\ NumSub(sResult.funding, Dec(-1015000, 0)) = Finite(0, 2^24, 0, -85)

\* C10 happens: calculate has been applied to the 'bear' preset as stored
NoClampingBearRounded_Witness ==
  /\ Forecasted /\ sIn.name = "bear" /\ sIn.key = "none"
  /\ IsNegative(RefSpread(sParams))
  /\ IsPositive(NumMul(sParams.leverage, sParams.equity))
  /\ sResult.funding = BearFunding
  /\ IsPositive(sResult.total)

----------------------------------------------------------------------------
(* The claims on BitFrostEngine (Spec): the three parameter sets, the memo *)
(* cells and the input fields.                                             *)

\* the values of the three parameter sets of the component's state
ParamSets ==
  [bear |-> heap[bearParams], base |-> heap[baseParams], bull |-> heap[bullParams]]

\* the values the SCENARIOS table holds
PresetTable == [n \in ScenarioNames |-> ScenarioLookup(heap, n)]

\* p and q agree in all fields but, at most, one
OneFieldApart(p, q) == \E k \in Keys : \A j \in Keys \ {k} : q[j] = p[j]

\* what one step may do to the parameter sets: nothing to the preset table;
\* a parameter set changes only by an edit made in the tab of its own
\* scenario (the tab whose inputs call that scenario's handler), in one field,
\* with the two other sets left alone; a step that is no edit (a tab switch,
\* with the recalculations of its render) changes no parameter set
EditFrame ==
  /\ PresetTable' = PresetTable
  /\ \A x \in ScenarioNames :
       ParamSets'[x] # ParamSets[x] =>
         /\ scenarioTab.mounted /\ scenarioTab.name = x
         /\ edits' = edits + 1
         /\ OneFieldApart(ParamSets[x], ParamSets'[x])
         /\ \A y \in ScenarioNames \ {x} : ParamSets'[y] = ParamSets[y]
  /\ edits' = edits => ParamSets' = ParamSets

Differing(p, q) == {k \in Keys : p[k] # q[k]}

TabParams == heap[ParamsOf(scenarioTab.name, bearParams, baseParams, bullParams)]

\* C12: results are never stale: after any sequence of parameter edits and
\* tab switches, for each scenario the RevenueResult shown in its scenario
\* tab, the forecast shown in its scenario tab and the RevenueResult shown in
\* the comparison view are calculate / generateMonthlyForecast of that
\* scenario's current parameter set; nothing computed from an earlier
\* parameter set is left.
ResultsFresh ==
  /\ bearResult.value = calculate(heap[bearParams])
  /\ baseResult.value = calculate(heap[baseParams])
  /\ bullResult.value = calculate(heap[bullParams])
  /\ scenarioTab.mounted = (activeTab # "comparison")
  /\ scenarioTab.mounted =>
       /\ scenarioTab.name = activeTab
       /\ heap[scenarioTab.params] = TabParams
       /\ scenarioTab.result.value = calculate(TabParams)
       /\ scenarioTab.monthlyData.value = generateMonthlyForecast(TabParams)

\* C12 happens: the base tab shows the result and the forecast of a
\* parameter set edited twice, which are not those of the parameter set
\* before the edits
ResultsFresh_Witness ==
  /\ edits = 2 /\ scenarioTab.mounted /\ scenarioTab.name = "base"
  /\ Differing(ParamSets.base, ScenarioLiteral.base) = {"equity", "hlFundingRate"}
  /\ scenarioTab.result.value = calculate(ParamSets.base)
  /\ scenarioTab.result.value # calculate(ScenarioLiteral.base)
  /\ scenarioTab.monthlyData.value # generateMonthlyForecast(ScenarioLiteral.base)
  /\ baseResult.value = scenarioTab.result.value

\* C13: in every reachable state of the application, starting from the
\* three presets and after any sequence of parameter edits through the input
\* handlers (each storing parseFloat of the input field's text), all thirteen
\* fields of every scenario's parameter set passed to calculate are finite
\* numbers.
ParamsAlwaysFinite ==
  \A x \in ScenarioNames : \A k \in Keys : ~IsNaN(ParamSets[x][k])

----------------------------------------------------------------------------
(* The claim on formatCurrency (SpecFormat).                               *)

\* digits * 10^exp >= 10^k, on the numeral as written (|digits| < 10^9)
AtLeast(in, k) ==
  /\ ~in.nan
  /\ IF k - in.exp <= 0 THEN in.digits >= 1
     ELSE IF k - in.exp > 9 THEN FALSE
     ELSE in.digits >= 10^(k - in.exp)

\* the power of ten of the unit the thresholds give a number
UnitOf(in) ==
  IF AtLeast(in, 9) THEN 9
  ELSE IF AtLeast(in, 6) THEN 6
  ELSE IF AtLeast(in, 3) THEN 3
  ELSE 0

SuffixOf(unit) ==
  IF unit = 9 THEN "B" ELSE IF unit = 6 THEN "M" ELSE IF unit = 3 THEN "K" ELSE ""

\* value / 10^unit, and the value itself for no unit
Scaled(value, unit) == IF unit = 0 THEN value ELSE NumDiv(value, Pow10(unit))

\* the text "X.XX" of a number of h hundredths, h < 2^28
Text(neg, h) == [nan |-> FALSE, neg |-> neg, n |-> <<h, 0, 0, 0>>]

\* -1,000,000,000 as written
MinusBillion == [nan |-> FALSE, digits |-> -1000, exp |-> 6]

\* C14: formatCurrency chooses its unit by the value's threshold, for every
\* number including the negative ones: value >= 1e9 is shown as value / 1e9
\* with suffix B, otherwise value >= 1e6 as value / 1e6 with suffix M,
\* otherwise value >= 1e3 as value / 1e3 with suffix K, otherwise the
\* unscaled value with no suffix; exactly one of the four forms is produced,
\* and 1e3, 1e6 and 1e9 themselves take the larger unit ($1.00K, $1.00M,
\* $1.00B), while -1e9 is shown unscaled ($-1000000000.00).
UnitByThreshold ==
  fPc = "done" =>
    /\ fText = Template(toFixed(Scaled(NumberOf(fIn), UnitOf(fIn)), 2),
                        SuffixOf(UnitOf(fIn)))
    /\ \A u \in {3, 6, 9} :
         NumberOf(fIn) = Pow10(u) => fText = Template(Text(FALSE, 100), SuffixOf(u))
    /\ fIn = MinusBillion =>
         fText = Template([nan |-> FALSE, neg |-> TRUE,
                           n |-> <<142010368, 372, 0, 0>>], "")

\* C14 happens: 1e6, written 1000 * 10^3, was formatted, as $1.00M
UnitByThreshold_Witness ==
  /\ fPc = "done"
  /\ fIn = [nan |-> FALSE, digits |-> 1000, exp |-> 3]
  /\ fText = Template(Text(FALSE, 100), "M")

====
